---- MODULE Spec2Model ----
(***************************************************************************)
(* Binary space partitioning tree of src/src/lib.rs (BspNode, add_side,    *)
(* insert, get_depth, order, order_self) together with the Plane           *)
(* implementation of its test module (Plane1D) and two further             *)
(* implementors of the Plane trait: PlaneFrag, whose cut returns several   *)
(* values on a side, and PlaneSplit, whose cut returns one on each side.   *)
(* The trait leaves the sizes of front and back open (lib.rs:3-14).        *)
(*                                                                         *)
(* Option<Box<BspNode<T>>> is a sequence of length 0 (None) or 1 (Some).   *)
(* Vec<T> is a sequence.  A BspNode is a record of values, front, back.    *)
(***************************************************************************)
EXTENDS Integers, Sequences, FiniteSets, Bags, TLC

\* ---- bounds -------------------------------------------------------------
MaxKey == 2          \* Plane1D keys and PlaneFrag cells range over 0..MaxKey
MaxInserts == 3      \* number of insert calls made on the root
MaxIter == 2         \* length of the sequences handed to add_side directly
MaxSlot == 3         \* number of values a slot filled by add_side directly may hold
MaxOut == 8          \* length out may reach by repeated order calls

\* ---- values of type T ---------------------------------------------------
\* struct Plane1D(i32, bool): field 0 is p0, field 1 is p1
Plane1D(k, d) == [T |-> "Plane1D", p0 |-> k, p1 |-> d]

\* a second implementor of Plane: the cells lo..hi of a line; when it is cut
\* it falls apart into its single cells
PlaneFrag(lo, hi) == [T |-> "PlaneFrag", p0 |-> lo, p1 |-> hi]

\* a third implementor of Plane: the cells lo..hi, cut in at most two pieces
PlaneSplit(lo, hi) == [T |-> "PlaneSplit", p0 |-> lo, p1 |-> hi]

Values1D == {Plane1D(k, d) : k \in 0..MaxKey, d \in BOOLEAN}
ValuesFrag == UNION {{PlaneFrag(lo, hi) : hi \in lo..MaxKey} : lo \in 0..MaxKey}

ValuesSplit == UNION {{PlaneSplit(lo, hi) : hi \in lo..MaxKey} : lo \in 0..MaxKey}
AllValues == Values1D \cup ValuesFrag \cup ValuesSplit

\* ---- enum PlaneCut<T> ---------------------------------------------------
Sibling(value) == [tag |-> "Sibling", value |-> <<value>>, front |-> <<>>, back |-> <<>>]
Cut(front, back) == [tag |-> "Cut", value |-> <<>>, front |-> front, back |-> back]

\* ---- impl Plane for Plane1D --------------------------------------------
Plane1D_cut(self, plane) ==
    IF self.p0 = plane.p0 THEN Sibling(plane)
    ELSE IF (self.p0 > plane.p0) = self.p1 THEN Cut(<<plane>>, <<>>)
    ELSE Cut(<<>>, <<plane>>)

Plane1D_is_aligned(self, plane) == self.p1 = plane.p1

\* ---- impl Plane for PlaneFrag ------------------------------------------
RECURSIVE Cells(_, _)
Cells(lo, hi) == IF lo > hi THEN <<>> ELSE <<PlaneFrag(lo, lo)>> \o Cells(lo + 1, hi)

Min2(a, b) == IF a < b THEN a ELSE b
Max2(a, b) == IF a > b THEN a ELSE b

PlaneFrag_cut(self, plane) ==
    IF self = plane THEN Sibling(plane)
    ELSE Cut(Cells(Max2(plane.p0, self.p0), plane.p1),
             Cells(plane.p0, Min2(plane.p1, self.p0 - 1)))

PlaneFrag_is_aligned(self, plane) == self.p0 <= plane.p0

\* ---- impl Plane for PlaneSplit -----------------------------------------
\* the cells lo..hi again, but a value that straddles the reference is cut in
\* two pieces, one for each side
PlaneSplit_cut(self, plane) ==
    IF self = plane THEN Sibling(plane)
    ELSE IF plane.p0 >= self.p0 THEN Cut(<<plane>>, <<>>)
    ELSE IF plane.p1 < self.p0 THEN Cut(<<>>, <<plane>>)
    ELSE Cut(<<PlaneSplit(self.p0, plane.p1)>>, <<PlaneSplit(plane.p0, self.p0 - 1)>>)

PlaneSplit_is_aligned(self, plane) == self.p0 <= plane.p0

\* ---- trait Plane: static dispatch on T ---------------------------------
cut(self, plane) ==
    CASE self.T = "Plane1D" -> Plane1D_cut(self, plane)
      [] self.T = "PlaneFrag" -> PlaneFrag_cut(self, plane)
      [] self.T = "PlaneSplit" -> PlaneSplit_cut(self, plane)

is_aligned(self, plane) ==
    CASE self.T = "Plane1D" -> Plane1D_is_aligned(self, plane)
      [] self.T = "PlaneFrag" -> PlaneFrag_is_aligned(self, plane)
      [] self.T = "PlaneSplit" -> PlaneSplit_is_aligned(self, plane)

\* ---- BspNode ------------------------------------------------------------
new(value) == [values |-> <<value>>, front |-> <<>>, back |-> <<>>]

is_leaf(node) == node.front = <<>> /\ node.back = <<>>

RECURSIVE insert(_, _)
RECURSIVE add_side(_, _)
RECURSIVE for_insert(_, _)

\* for p in iter { node.insert(p) }
for_insert(node, iter) ==
    IF iter = <<>> THEN node
    ELSE for_insert(insert(node, Head(iter)), Tail(iter))

\* add_side that builds a fresh subtree even when the slot holds one
add_side_replace(side, iter) ==
    IF iter # <<>>
    THEN <<for_insert(new(Head(iter)), Tail(iter))>>
    ELSE side

\* add_side that forgets the values after the first when it fills a slot
add_side_first_only(side, iter) ==
    IF side = <<>>
    THEN IF iter # <<>>
         THEN <<new(Head(iter))>>
         ELSE side
    ELSE <<for_insert(side[1], iter)>>

add_side(side, iter) ==
    IF side = <<>>
    THEN IF iter # <<>>
         THEN <<for_insert(new(Head(iter)), Tail(iter))>>
         ELSE side
    ELSE <<for_insert(side[1], iter)>>

\* insert that routes the front values to back and the back values to front
insert_swapped(node, value) ==
    LET c == cut(node.values[1], value) IN
    IF c.tag = "Sibling"
    THEN [node EXCEPT !.values = Append(@, c.value[1])]
    ELSE [node EXCEPT !.front = add_side(@, c.back),
                      !.back = add_side(@, c.front)]

\* insert that puts a sibling in front of the values instead of behind them
insert_prepend(node, value) ==
    LET c == cut(node.values[1], value) IN
    IF c.tag = "Sibling"
    THEN [node EXCEPT !.values = <<c.value[1]>> \o @]
    ELSE [node EXCEPT !.front = add_side(@, c.front),
                      !.back = add_side(@, c.back)]

insert(node, value) ==
    LET c == cut(node.values[1], value) IN
    IF c.tag = "Sibling"
    THEN [node EXCEPT !.values = Append(@, c.value[1])]
    ELSE [node EXCEPT !.front = add_side(@, c.front),
                      !.back = add_side(@, c.back)]

RECURSIVE get_depth(_)

\* get_depth that counts the values of a node instead of the node
get_depth_values(node) ==
    LET df == IF node.front # <<>> THEN get_depth(node.front[1]) ELSE 0
        db == IF node.back # <<>> THEN get_depth(node.back[1]) ELSE 0
    IN Len(node.values) + Max2(df, db)

\* get_depth that counts an absent child as one level
get_depth_none_one(node) ==
    LET df == IF node.front # <<>> THEN get_depth(node.front[1]) ELSE 1
        db == IF node.back # <<>> THEN get_depth(node.back[1]) ELSE 1
    IN 1 + Max2(df, db)

get_depth(node) ==
    LET df == IF node.front # <<>> THEN get_depth(node.front[1]) ELSE 0
        db == IF node.back # <<>> THEN get_depth(node.back[1]) ELSE 0
    IN 1 + Max2(df, db)

\* one call of is_aligned made by order at a node: who is the receiver and
\* who is the argument
aligned_call_swapped(node, base) == [at |-> node.values[1], receiver |-> node.values[1], argument |-> base]

aligned_call(node, base) == [at |-> node.values[1], receiver |-> base, argument |-> node.values[1]]

\* order threads the output vector and the log of is_aligned calls
RECURSIVE order(_, _, _)

\* order that writes the node's values before it visits the former side
order_values_first(node, base, st) ==
    LET call == aligned_call(node, base)
        aligned == is_aligned(call.receiver, call.argument)
        former == IF aligned THEN node.front ELSE node.back
        latter == IF aligned THEN node.back ELSE node.front
        st0 == [st EXCEPT !.calls = Append(@, call), !.out = @ \o node.values]
        st1 == IF former # <<>> THEN order(former[1], base, st0) ELSE st0
    IN IF latter # <<>> THEN order(latter[1], base, st1) ELSE st1

\* order that assigns the node's values to out instead of extending out
order_assign(node, base, st) ==
    LET call == aligned_call(node, base)
        aligned == is_aligned(call.receiver, call.argument)
        former == IF aligned THEN node.front ELSE node.back
        latter == IF aligned THEN node.back ELSE node.front
        st0 == [st EXCEPT !.calls = Append(@, call)]
        st1 == IF former # <<>> THEN order(former[1], base, st0) ELSE st0
        st2 == [st1 EXCEPT !.out = node.values]
    IN IF latter # <<>> THEN order(latter[1], base, st2) ELSE st2

\* order that visits front first whatever is_aligned answers
order_front_first(node, base, st) ==
    LET call == aligned_call(node, base)
        aligned == is_aligned(call.receiver, call.argument)
        former == node.front
        latter == node.back
        st0 == [st EXCEPT !.calls = Append(@, call)]
        st1 == IF former # <<>> THEN order(former[1], base, st0) ELSE st0
        st2 == [st1 EXCEPT !.out = @ \o node.values]
    IN IF latter # <<>> THEN order(latter[1], base, st2) ELSE st2

order(node, base, st) ==
    LET call == aligned_call(node, base)
        aligned == is_aligned(call.receiver, call.argument)
        former == IF aligned THEN node.front ELSE node.back
        latter == IF aligned THEN node.back ELSE node.front
        st0 == [st EXCEPT !.calls = Append(@, call)]
        st1 == IF former # <<>> THEN order(former[1], base, st0) ELSE st0
        st2 == [st1 EXCEPT !.out = @ \o node.values]
    IN IF latter # <<>> THEN order(latter[1], base, st2) ELSE st2

order_self(node, st) == order(node, node.values[1], st)

\* ---- state -----------------------------------------------------------
VARIABLES
    root,      \* the tree: a BspNode
    given,     \* bag of the values handed to new and insert so far
    op,        \* the last operation performed
    out,       \* the caller's output vector
    pre,       \* what out held when the last order / order_self was called
    base,      \* Option: the base of the last order call
    calls,     \* the is_aligned calls of the last order call
    node_opt,  \* the slot add_side is called on directly (test_add_side)
    iter       \* the sequence handed to the last direct add_side call

vars == <<root, given, op, out, pre, base, calls, node_opt, iter>>

\* the number of values stored below a slot
RECURSIVE NumValues(_)
NumValues(side) ==
    IF side = <<>> THEN 0
    ELSE Len(side[1].values) + NumValues(side[1].front) + NumValues(side[1].back)

InitOf(Roots) ==
    /\ \E v \in Roots : root = new(v) /\ given = SetToBag({v})
    /\ op = "new"
    /\ out = <<>>
    /\ pre = <<>>
    /\ base = <<>>
    /\ calls = <<>>
    /\ node_opt = <<>>
    /\ iter = <<>>

Init == InitOf(Values1D)

SameType(S) == {v \in S : v.T = root.values[1].T}

\* The tree is built first and queried afterwards, as test_order does: order
\* takes &self, so the trees that are queried are exactly the trees built.
Insert(value) ==
    /\ BagCardinality(given) <= MaxInserts
    /\ op \in {"new", "insert"}
    /\ root' = insert(root, value)
    /\ given' = given (+) SetToBag({value})
    /\ op' = "insert"
    /\ UNCHANGED <<out, pre, base, calls, node_opt, iter>>

\* order and order_self extend the caller's out, which is never cleared
Order(b) ==
    LET st == order(root, b, [out |-> out, calls |-> <<>>]) IN
    /\ Len(out) + NumValues(<<root>>) <= MaxOut
    /\ out' = st.out
    /\ calls' = st.calls
    /\ pre' = out
    /\ base' = <<b>>
    /\ op' = "order"
    /\ UNCHANGED <<root, given, node_opt, iter>>

OrderSelf ==
    LET st == order_self(root, [out |-> out, calls |-> <<>>]) IN
    /\ Len(out) + NumValues(<<root>>) <= MaxOut
    /\ out' = st.out
    /\ calls' = st.calls
    /\ pre' = out
    /\ base' = <<root.values[1]>>
    /\ op' = "order_self"
    /\ UNCHANGED <<root, given, node_opt, iter>>

Next ==
    \/ \E v \in Values1D : Insert(v)
    \/ \E b \in Values1D : Order(b)
    \/ OrderSelf

Spec == Init /\ [][Next]_vars

\* ---- trees over every implementor of Plane ----------------------------
InitPlanes == InitOf(AllValues)

NextPlanes == \E v \in SameType(AllValues) : Insert(v)

SpecPlanes == InitPlanes /\ [][NextPlanes]_vars

\* ---- add_side called directly on a slot, as test_add_side does --------
Iters == UNION {[1..n -> Values1D] : n \in 0..MaxIter}

InitAddSide == InitOf({Plane1D(0, TRUE)})

AddSide(s) ==
    /\ NumValues(node_opt) + Len(s) <= MaxSlot
    /\ node_opt' = add_side(node_opt, s)
    /\ iter' = s
    /\ op' = "add_side"
    /\ UNCHANGED <<root, given, out, pre, base, calls>>

NextAddSide == \E s \in Iters : AddSide(s)

SpecAddSide == InitAddSide /\ [][NextAddSide]_vars

\* ---- the nodes and values of a tree -----------------------------------
\* a position in a tree: the sides taken from its root
RECURSIVE Paths(_)
Paths(node) ==
    {<<>>}
    \cup (IF node.front = <<>> THEN {} ELSE {<<"front">> \o p : p \in Paths(node.front[1])})
    \cup (IF node.back = <<>> THEN {} ELSE {<<"back">> \o p : p \in Paths(node.back[1])})

RECURSIVE NodeAt(_, _)
NodeAt(node, p) ==
    IF p = <<>> THEN node
    ELSE NodeAt(IF Head(p) = "front" THEN node.front[1] ELSE node.back[1], Tail(p))

Nodes(node) == {NodeAt(node, p) : p \in Paths(node)}

Range(s) == {s[i] : i \in DOMAIN s}

\* the values stored anywhere below a slot
SubValues(side) ==
    IF side = <<>> THEN {} ELSE UNION {Range(n.values) : n \in Nodes(side[1])}

BagOfSeq(s) == [v \in Range(s) |-> Cardinality({i \in DOMAIN s : s[i] = v})]

IsPrefix(s, t) == Len(s) <= Len(t) /\ SubSeq(t, 1, Len(s)) = s

Keys(s) == [i \in DOMAIN s |-> s[i].p0]
NonDecreasing(ks) == \A i \in 1..(Len(ks) - 1) : ks[i] <= ks[i + 1]
NonIncreasing(ks) == \A i \in 1..(Len(ks) - 1) : ks[i] >= ks[i + 1]
Reverse(s) == [i \in DOMAIN s |-> s[Len(s) + 1 - i]]

SetMax(S) == CHOOSE x \in S : \A y \in S : y <= x

Ordered == op \in {"order", "order_self"}
Empty == [out |-> <<>>, calls |-> <<>>]
K == BagCardinality(given) - 1      \* the number of insert calls so far

\* ---- C1 ---------------------------------------------------------------
\* C1: for Plane1D (one value per cut), order with any base on an empty out
\* leaves out holding exactly the bag of the values given to new and insert.
C1_Conservation ==
    (Ordered /\ pre = <<>>) =>
        /\ Len(out) = BagCardinality(given)
        /\ BagOfSeq(out) = given

C1_Witness ==
    /\ op = "order" /\ pre = <<>>
    /\ Len(out) >= 4
    /\ \E v \in DOMAIN given : given[v] >= 2
    /\ ~is_leaf(root)
    /\ base[1].p1 # root.values[1].p1

\* ---- C2 ---------------------------------------------------------------
SameDirection == \A v \in DOMAIN given : v.p1 = root.values[1].p1

\* C2 as stated: with all values of one direction, whichever it is,
\* order_self on an empty out yields non-decreasing keys.
C2_Original ==
    (op = "order_self" /\ pre = <<>> /\ SameDirection) => NonDecreasing(Keys(out))

\* C2 as amended: with all values of direction true, order_self on an empty
\* out yields non-decreasing keys; with all values of direction false, it
\* yields non-increasing keys.
C2_SortConsistency ==
    (op = "order_self" /\ pre = <<>> /\ SameDirection) =>
        IF root.values[1].p1 THEN NonDecreasing(Keys(out))
        ELSE NonIncreasing(Keys(out))

C2_Witness ==
    /\ op = "order_self" /\ pre = <<>> /\ SameDirection
    /\ root.values[1].p1
    /\ Len(out) >= 4
    /\ Cardinality(Range(Keys(out))) >= 3
    /\ \E v \in DOMAIN given : given[v] >= 2
    /\ root.front # <<>> /\ root.back # <<>>

\* ---- C3 ---------------------------------------------------------------
\* C3: at every node, every value below front is placed in front by the
\* node's reference plane, every value below back is placed in back, and
\* every further value of the node is a Sibling of the reference plane.
C3_Partition ==
    \A n \in Nodes(root) :
        /\ \A v \in SubValues(n.front) : cut(n.values[1], v) = Cut(<<v>>, <<>>)
        /\ \A v \in SubValues(n.back) : cut(n.values[1], v) = Cut(<<>>, <<v>>)
        /\ \A i \in 2..Len(n.values) : cut(n.values[1], n.values[i]) = Sibling(n.values[i])

C3_Witness ==
    /\ \E v \in DOMAIN given : v.p1 # root.values[1].p1
    /\ \E n \in Nodes(root) : n.front # <<>>
    /\ \E n \in Nodes(root) : n.back # <<>>
    /\ Cardinality(Paths(root)) >= 3
    /\ \E n \in Nodes(root) : Len(n.values) >= 2

\* ---- C4 ---------------------------------------------------------------
Height(node) == 1 + SetMax({Len(p) : p \in Paths(node)})

C4_DepthInv ==
    \A n \in Nodes(root) :
        /\ get_depth(n) >= 1
        /\ get_depth(n) = Height(n)
        /\ is_leaf(n) => get_depth(n) = 1

\* an insert that ended as Sibling: a value was stored and no node was added
SiblingStep ==
    /\ BagCardinality(given') = BagCardinality(given) + 1
    /\ Cardinality(Paths(root')) = Cardinality(Paths(root))

\* C4: get_depth of every node is at least 1 and is the number of nodes on
\* the longest downward path (1 for a leaf, whatever its siblings), and an
\* insert that ends as Sibling leaves get_depth of the tree unchanged.
C4_Depth ==
    /\ []C4_DepthInv
    /\ [][SiblingStep => get_depth(root') = get_depth(root)]_vars

C4_Witness ==
    /\ op = "insert"
    /\ get_depth(root) >= 3
    /\ \E n \in Nodes(root) : is_leaf(n) /\ Len(n.values) >= 2

\* ---- C5 ---------------------------------------------------------------
Appended(o, p) == SubSeq(o, Len(p) + 1, Len(o))

\* C5: order leaves in out what out held before, followed by what the same
\* call produces on an empty out; it leaves the tree as it was; and two calls
\* with the same base on an unmodified tree append the same sequence.
C5_AppendOnly ==
    [][Ordered' =>
        /\ root' = root
        /\ out' = pre' \o order(root, base'[1], Empty).out
        /\ (Ordered /\ base' = base) => Appended(out', pre') = Appended(out, pre)
      ]_vars

C5_Witness ==
    /\ Ordered
    /\ pre # <<>>
    /\ Len(out) >= Len(pre) + 3
    /\ ~is_leaf(root)

\* ---- C6 ---------------------------------------------------------------
\* C6 as stated: in every is_aligned call of order the receiver is the
\* visited node's reference plane and the argument is the viewpoint.
C6_Original ==
    Ordered => \A i \in DOMAIN calls :
        calls[i].receiver = calls[i].at /\ calls[i].argument = base[1]

\* C6 as amended: order calls is_aligned once at every node it visits, and
\* in every call the receiver is the viewpoint base and the argument is the
\* visited node's reference plane.
C6_CallDirection ==
    Ordered =>
        /\ Len(calls) = Cardinality(Paths(root))
        /\ {calls[i].at : i \in DOMAIN calls} = {n.values[1] : n \in Nodes(root)}
        /\ \A i \in DOMAIN calls :
              calls[i].receiver = base[1] /\ calls[i].argument = calls[i].at

C6_Witness ==
    /\ op = "order"
    /\ Len(calls) >= 3
    /\ \A i \in DOMAIN calls : calls[i].at # base[1]

\* ---- C7 ---------------------------------------------------------------
ValuesOf(T) == {v \in AllValues : v.T = T}

\* the implementor never returns more than one value on a side
OnePerSide(T) ==
    \A a \in ValuesOf(T), b \in ValuesOf(T) :
        Len(cut(a, b).front) <= 1 /\ Len(cut(a, b).back) <= 1

\* C7 as stated: after k inserts get_depth(root) <= k + 1, for every
\* implementor of Plane, those that return several values on a side included.
C7_Original == get_depth(root) <= K + 1

\* C7 as amended: after k inserts get_depth(root) <= k + 1 for every
\* implementor of Plane whose cut returns at most one value on each side; for
\* every implementor get_depth(root) is at most the number of values stored.
C7_DepthBound ==
    /\ OnePerSide(root.values[1].T) => get_depth(root) <= K + 1
    /\ get_depth(root) <= NumValues(<<root>>)

C7_Witness ==
    /\ root.values[1].T = "PlaneSplit"
    /\ K = 3
    /\ get_depth(root) = 4
    /\ NumValues(<<root>>) > 4

\* ---- C8 ---------------------------------------------------------------
RECURSIVE InsertFrom(_, _, _)
InsertFrom(node, s, i) ==
    IF i > Len(s) THEN node ELSE InsertFrom(insert(node, s[i]), s, i + 1)

\* C8: add_side leaves an absent slot absent for an empty sequence, fills an
\* absent slot with new(s1) followed by insert(s2), ..., insert(sm), and
\* extends a present subtree by insert(s1), ..., insert(sm) keeping its
\* reference plane; a leaf that receives one value for front and one for
\* back keeps its values and gets two one-node leaves.
C8_AddSide ==
    [][/\ (node_opt = <<>> /\ iter' = <<>>) => node_opt' = <<>>
       /\ (node_opt = <<>> /\ iter' # <<>>) =>
             node_opt' = <<InsertFrom(new(iter'[1]), iter', 2)>>
       /\ (node_opt = <<>> /\ Len(iter') = 1) =>
             node_opt'[1].values = iter' /\ is_leaf(node_opt'[1])
       /\ node_opt # <<>> =>
             /\ node_opt' = <<InsertFrom(node_opt[1], iter', 1)>>
             /\ node_opt'[1].values[1] = node_opt[1].values[1]
       /\ ( /\ node_opt # <<>> /\ Len(iter') = 2
            /\ is_leaf(node_opt[1])
            /\ cut(node_opt[1].values[1], iter'[1]) = Cut(<<iter'[1]>>, <<>>)
            /\ cut(node_opt[1].values[1], iter'[2]) = Cut(<<>>, <<iter'[2]>>) ) =>
             node_opt'[1] = [values |-> node_opt[1].values,
                             front |-> <<new(iter'[1])>>,
                             back |-> <<new(iter'[2])>>]
      ]_vars

C8_Witness ==
    /\ op = "add_side"
    /\ Len(iter) = 2
    /\ node_opt # <<>>
    /\ node_opt[1].values # <<iter[1]>>
    /\ node_opt[1].front = <<new(iter[1])>>
    /\ node_opt[1].back = <<new(iter[2])>>

\* ---- C9 ---------------------------------------------------------------
\* C9: every node's values is non-empty, and across every insert every node
\* stays at its position with its old values a prefix of its new values.
C9_GrowOnly ==
    /\ [](\A n \in Nodes(root) : n.values # <<>>)
    /\ [][\A p \in Paths(root) :
            /\ p \in Paths(root')
            /\ IsPrefix(NodeAt(root, p).values, NodeAt(root', p).values)
            /\ NodeAt(root', p).values[1] = NodeAt(root, p).values[1]
         ]_vars

C9_Witness ==
    /\ op = "insert"
    /\ Len(root.values) >= 2
    /\ \E p \in Paths(root) : Len(p) = 2 /\ Len(NodeAt(root, p).values) >= 2

\* ---- C10 --------------------------------------------------------------
Flipped(b) == Plane1D(b.p0, ~b.p1)

\* C10: whatever the directions of the planes in the tree, order on an empty
\* out yields non-decreasing keys for a base of direction true and
\* non-increasing keys for a base of direction false, and the keys for the
\* base of the other direction are the reverse sequence.
C10_GlobalOrder ==
    (Ordered /\ pre = <<>>) =>
        /\ base[1].p1 => NonDecreasing(Keys(out))
        /\ ~base[1].p1 => NonIncreasing(Keys(out))
        /\ Keys(order(root, Flipped(base[1]), Empty).out) = Reverse(Keys(out))

C10_Witness ==
    /\ op = "order" /\ pre = <<>>
    /\ ~base[1].p1
    /\ Cardinality(Range(Keys(out))) >= 3
    /\ Len(out) >= 4
    /\ \E n \in Nodes(root) : n.values[1].p1 # root.values[1].p1
    /\ get_depth(root) >= 3
====
